---- MODULE Spec2Model ----
(***************************************************************************)
(* A model of sparse_matrix.py: the SparseMatrix class (construction, the  *)
(* file parser load_matrix, get_element / set_element, add / subtract /    *)
(* multiply and the formatter __str__).                                     *)
(*                                                                         *)
(* Python objects are modelled with their identity: a matrix is an entry   *)
(* of objs whose elements field is a reference into store, the heap of     *)
(* dict objects.  A dict is the sequence of its items in insertion order   *)
(* (the order in which Python iterates it).  Text is a sequence of one     *)
(* character strings.                                                      *)
(***************************************************************************)
EXTENDS Integers, Sequences, FiniteSets, TLC

VARIABLES objs, store, file, last, hist, nsets

vars == <<objs, store, file, last, hist, nsets>>

----------------------------------------------------------------------------
(* Bounds of the model *)

MaxDim == 2
MaxObjs == 3
MaxIOObjs == 2
MaxSets == 1
MaxCellSets == 2
MaxEntries == 2
MaxLines == 2

\* dimensions given to the constructor, indices and values given to set_element
Dims == 1..MaxDim
Idx == 0..(MaxDim - 1)
Vals == {-1, 2}
\* indices below 0 and beyond every declared dimension
WideIdx == -1..MaxDim
CellVals == {0, 2}

\* an optional argument: <<>> is None, <<x>> is the value x
None == <<>>
Some(x) == <<x>>
Path == "matrix.txt"

NoError == <<>>
ValueError(msg) == <<"ValueError", msg>>
\* load_matrix wraps whatever was raised inside it (line 44)
ReadError(cause) == <<"ValueError", "An error occurred while reading the file", cause>>
WrongFormat == "Input file has wrong format"

----------------------------------------------------------------------------
(* Python dict: items in insertion order, keys unique *)

DictHas(d, key) == \E i \in 1..Len(d) : d[i].k = key

DictIndex(d, key) == CHOOSE i \in 1..Len(d) : d[i].k = key

DictGet(d, key, default) == IF DictHas(d, key) THEN d[DictIndex(d, key)].v ELSE default

DictSetItem(d, key, value) ==
    IF DictHas(d, key)
    THEN [d EXCEPT ![DictIndex(d, key)].v = value]
    ELSE Append(d, [k |-> key, v |-> value])

DictKeys(d) == {d[i].k : i \in 1..Len(d)}

\* the mapping a dict denotes, whatever the insertion order
Mapping(d) == [key \in DictKeys(d) |-> DictGet(d, key, 0)]

----------------------------------------------------------------------------
(* The heap of dict objects *)

Fresh(st) == CHOOSE n \in 1..(Cardinality(DOMAIN st) + 1) :
                 n \notin DOMAIN st /\ \A m \in 1..(n - 1) : m \in DOMAIN st

Alloc(st, d) == (Fresh(st) :> d) @@ st

\* a dict no matrix refers to any more is freed
Collect(ob, st) == [r \in {ob[i].elements : i \in 1..Len(ob)} \cap DOMAIN st |-> st[r]]

Result(ob, st, ret, res, err) ==
    [objs |-> ob, store |-> Collect(ob, st), ret |-> ret, res |-> res, err |-> err]

----------------------------------------------------------------------------
(* Text: str.strip, str.split, file.readlines, int(str) and str(int) *)

Digit == <<"0", "1", "2", "3", "4", "5", "6", "7", "8", "9">>

IsDigit(c) == \E i \in 1..10 : Digit[i] = c

DigitVal(c) == (CHOOSE i \in 1..10 : Digit[i] = c) - 1

IsSpace(c) == c \in {" ", "\n", "\t", "\r"}

RECURSIVE LStrip(_)
LStrip(s) == IF s # <<>> /\ IsSpace(Head(s)) THEN LStrip(Tail(s)) ELSE s

RECURSIVE RStrip(_)
RStrip(s) == IF s # <<>> /\ IsSpace(s[Len(s)]) THEN RStrip(SubSeq(s, 1, Len(s) - 1)) ELSE s

strip(s) == RStrip(LStrip(s))

FirstIndex(s, c) == CHOOSE i \in 1..Len(s) : s[i] = c /\ \A j \in 1..(i - 1) : s[j] # c

RECURSIVE split(_, _)
split(s, sep) ==
    IF \E i \in 1..Len(s) : s[i] = sep
    THEN <<SubSeq(s, 1, FirstIndex(s, sep) - 1)>>
             \o split(SubSeq(s, FirstIndex(s, sep) + 1, Len(s)), sep)
    ELSE <<s>>

\* the lines of a text, each with its line end
RECURSIVE readlines(_)
readlines(text) ==
    IF text = <<>> THEN <<>>
    ELSE IF \E i \in 1..Len(text) : text[i] = "\n"
         THEN <<SubSeq(text, 1, FirstIndex(text, "\n"))>>
                  \o readlines(SubSeq(text, FirstIndex(text, "\n") + 1, Len(text)))
         ELSE <<text>>

RECURSIVE DigitsVal(_)
DigitsVal(ds) ==
    IF ds = <<>> THEN 0
    ELSE 10 * DigitsVal(SubSeq(ds, 1, Len(ds) - 1)) + DigitVal(ds[Len(ds)])

\* int(s), once s is stripped: an optional sign, then digits with single
\* underscores between them
int_stripped(t) ==
    LET signed == t # <<>> /\ t[1] \in {"+", "-"}
        body == IF signed THEN Tail(t) ELSE t
        valid == /\ body # <<>>
                 /\ \A i \in 1..Len(body) :
                        \/ IsDigit(body[i])
                        \/ /\ body[i] = "_"
                           /\ 1 < i /\ i < Len(body)
                           /\ IsDigit(body[i - 1]) /\ IsDigit(body[i + 1])
        mag == DigitsVal(SelectSeq(body, IsDigit))
    IN IF valid
       THEN [ok |-> TRUE, val |-> IF t[1] = "-" THEN -mag ELSE mag]
       ELSE [ok |-> FALSE, val |-> 0]

\* int(s) ignores white space around the number
py_int(s) == int_stripped(strip(s))

RECURSIVE nat_str(_)
nat_str(n) == IF n < 10 THEN <<Digit[n + 1]>>
              ELSE nat_str(n \div 10) \o <<Digit[(n % 10) + 1]>>

py_str(n) == IF n < 0 THEN <<"-">> \o nat_str(-n) ELSE nat_str(n)

----------------------------------------------------------------------------
(* SparseMatrix.__str__ *)

KeyLess(a, b) == a[1] < b[1] \/ (a[1] = b[1] /\ a[2] < b[2])

\* sorted(self.elements.items())
RECURSIVE Sorted(_)
Sorted(d) ==
    IF d = <<>> THEN <<>>
    ELSE LET m == CHOOSE i \in 1..Len(d) : \A j \in 1..Len(d) : j = i \/ KeyLess(d[i].k, d[j].k)
         IN <<d[m]>> \o Sorted(SubSeq(d, 1, m - 1) \o SubSeq(d, m + 1, Len(d)))

\* the line of an entry with row and col in each other's place
EntryLine_swapped(e) ==
    <<"(">> \o py_str(e.k[2]) \o <<",", " ">> \o py_str(e.k[1]) \o <<",", " ">>
        \o py_str(e.v) \o <<")", "\n">>

EntryLine(e) ==
    <<"(">> \o py_str(e.k[1]) \o <<",", " ">> \o py_str(e.k[2]) \o <<",", " ">>
        \o py_str(e.v) \o <<")", "\n">>

RECURSIVE EntryLines(_)
EntryLines(items) ==
    IF items = <<>> THEN <<>> ELSE EntryLine(Head(items)) \o EntryLines(Tail(items))

str(m, d) ==
    <<"r", "o", "w", "s", "=">> \o py_str(m.num_rows) \o <<"\n">>
        \o <<"c", "o", "l", "s", "=">> \o py_str(m.num_cols) \o <<"\n">>
        \o EntryLines(Sorted(d))

----------------------------------------------------------------------------
(* SparseMatrix.load_matrix *)

\* int(..) of line 29 or 30
HeaderInt(int) ==
    IF ~int.ok THEN [err |-> "invalid literal for int()", val |-> 0]
    ELSE [err |-> "", val |-> int.val]

\* ..split('=')[1] of line 29 or 30
HeaderField(parts) ==
    IF Len(parts) < 2 THEN [err |-> "IndexError", val |-> 0]
    ELSE HeaderInt(py_int(parts[2]))

\* int(lines[n].strip().split('=')[1]), lines 29 and 30 (n counts from 1)
HeaderValue(lines, n) ==
    IF Len(lines) < n THEN [err |-> "IndexError", val |-> 0]
    ELSE HeaderField(split(strip(lines[n]), "="))

\* line 40, unless an int(..) of line 39 raised
StoreEntry(d, row, col, value) ==
    IF ~row.ok \/ ~col.ok \/ ~value.ok THEN [d |-> d, err |-> WrongFormat]
    ELSE [d |-> DictSetItem(d, <<row.val, col.val>>, value.val), err |-> ""]

\* line 39 taking the first three fields of however many
ParseFields_first_three(d, fields) ==
    IF Len(fields) < 3 THEN [d |-> d, err |-> WrongFormat]
    ELSE StoreEntry(d, py_int(fields[1]), py_int(fields[2]), py_int(fields[3]))

\* row, col, value = map(int, ..), line 39
ParseFields(d, fields) ==
    IF Len(fields) # 3 THEN [d |-> d, err |-> WrongFormat]
    ELSE StoreEntry(d, py_int(fields[1]), py_int(fields[2]), py_int(fields[3]))

\* lines 34 to 39, for a stripped line
ParseLine(d, line) ==
    IF line = <<>> THEN [d |-> d, err |-> ""]
    ELSE IF ~(line[1] = "(" /\ line[Len(line)] = ")") THEN [d |-> d, err |-> WrongFormat]
    ELSE ParseFields(d, split(SubSeq(line, 2, Len(line) - 1), ","))

\* one line of the loop of lines 32 to 42: the dict after it, and what it raised
ParseEntry(d, rawline) == ParseLine(d, strip(rawline))

RECURSIVE ParseEntries(_, _, _)
\* the loop goes on unless the line raised
ParseRest(one, lines, i) ==
    IF one.err # "" THEN one ELSE ParseEntries(one.d, lines, i + 1)

\* for line in lines[2:], from line i on (i counts from 1)
ParseEntries(d, lines, i) ==
    IF i > Len(lines) THEN [d |-> d, err |-> ""]
    ELSE ParseRest(ParseEntry(d, lines[i]), lines, i)

\* lines 31 to 42: self.elements is a new dict, filled until a line raises
load_body(ob, st, self, body) ==
    Result([ob EXCEPT ![self].elements = Fresh(st)], Alloc(st, body.d), 0, 0,
           IF body.err = "" THEN NoError ELSE ReadError(body.err))

\* lines 29 to 31: every assignment to self made before an exception stays made
load_header(ob, st, self, lines, rows, cols) ==
    IF rows.err # "" THEN Result(ob, st, 0, 0, ReadError(rows.err))
    ELSE IF cols.err # ""
    THEN Result([ob EXCEPT ![self].num_rows = rows.val], st, 0, 0, ReadError(cols.err))
    ELSE load_body([ob EXCEPT ![self].num_rows = rows.val, ![self].num_cols = cols.val],
                   st, self, ParseEntries(<<>>, lines, 3))

load_lines(ob, st, self, lines) ==
    load_header(ob, st, self, lines, HeaderValue(lines, 1), HeaderValue(lines, 2))

\* fs is the content of the file at Path, or None when there is no such file
load_matrix(ob, st, fs, self) ==
    IF fs = None THEN Result(ob, st, 0, 0, ReadError("FileNotFoundError"))
    ELSE load_lines(ob, st, self, readlines(fs[1]))

----------------------------------------------------------------------------
(* SparseMatrix.__init__, get_element, set_element *)

Unset == [num_rows |-> 0, num_cols |-> 0, elements |-> 0]

\* lines 13 to 16: the matrix of the given dimensions, with a new empty dict
init_dims(ob, st, num_rows, num_cols) ==
    Result(Append(ob, [num_rows |-> num_rows, num_cols |-> num_cols, elements |-> Fresh(st)]),
           Alloc(st, <<>>), 0, Len(ob) + 1, NoError)

\* A constructor that raises binds no object: the caller's heap is as before.
init_file(ob, st, loaded) ==
    IF loaded.err # NoError THEN [loaded EXCEPT !.objs = ob, !.store = st]
    ELSE [loaded EXCEPT !.res = Len(ob) + 1]

init(ob, st, fs, path, num_rows, num_cols) ==
    IF path # None
    THEN init_file(ob, st, load_matrix(Append(ob, Unset), st, fs, Len(ob) + 1))
    ELSE IF num_rows # None /\ num_cols # None
    THEN init_dims(ob, st, num_rows[1], num_cols[1])
    ELSE [objs |-> ob, store |-> st, ret |-> 0, res |-> 0,
          err |-> ValueError("Either matrix_file_path or num_rows and num_cols must be provided.")]

get_element(ob, st, self, curr_row, curr_col) ==
    Result(ob, st, DictGet(st[ob[self].elements], <<curr_row, curr_col>>, 0), 0, NoError)

\* set_element as it would be with the indices checked against the dimensions
set_element_checked(ob, st, self, curr_row, curr_col, value) ==
    Result(ob,
           IF /\ 0 <= curr_row /\ curr_row < ob[self].num_rows
              /\ 0 <= curr_col /\ curr_col < ob[self].num_cols
           THEN [st EXCEPT ![ob[self].elements] = DictSetItem(@, <<curr_row, curr_col>>, value)]
           ELSE st,
           0, 0, NoError)

\* set_element as it would be if it grew the matrix to hold the index
set_element_growing(ob, st, self, curr_row, curr_col, value) ==
    Result([ob EXCEPT ![self].num_rows = IF curr_row >= @ THEN curr_row + 1 ELSE @,
                      ![self].num_cols = IF curr_col >= @ THEN curr_col + 1 ELSE @],
           [st EXCEPT ![ob[self].elements] = DictSetItem(@, <<curr_row, curr_col>>, value)],
           0, 0, NoError)

set_element(ob, st, self, curr_row, curr_col, value) ==
    Result(ob,
           [st EXCEPT ![ob[self].elements] = DictSetItem(@, <<curr_row, curr_col>>, value)],
           0, 0, NoError)

----------------------------------------------------------------------------
(* SparseMatrix.add, subtract, multiply.  Their SparseMatrix(num_rows=..,   *)
(* num_cols=..) takes the branch of lines 13 to 16 of __init__.            *)

\* result.elements = self.elements, without the copy
dict_alias(st, ref) == [store |-> st, ref |-> ref]

\* self.elements.copy(): a new dict object with the same items
dict_copy(st, ref) == [store |-> Alloc(st, st[ref]), ref |-> Fresh(st)]

\* the loop of add with = in place of += at line 80
RECURSIVE add_loop_overwriting(_, _, _, _)
add_loop_overwriting(st, res, oth, i) ==
    IF i > Len(st[oth]) THEN st
    ELSE add_loop_overwriting([st EXCEPT ![res] = DictSetItem(@, st[oth][i].k, st[oth][i].v)],
                              res, oth, i + 1)

\* the loop of lines 78 to 82; the dict of other is read as the loop runs
RECURSIVE add_loop(_, _, _, _)
add_loop(st, res, oth, i) ==
    IF i > Len(st[oth]) THEN st
    ELSE LET e == st[oth][i]
         IN add_loop([st EXCEPT ![res] =
                         IF DictHas(@, e.k)
                         THEN DictSetItem(@, e.k, DictGet(@, e.k, 0) + e.v)
                         ELSE DictSetItem(@, e.k, e.v)],
                     res, oth, i + 1)

\* the loop of subtract with the += of add left at line 99
RECURSIVE subtract_loop_adding(_, _, _, _)
subtract_loop_adding(st, res, oth, i) ==
    IF i > Len(st[oth]) THEN st
    ELSE LET e == st[oth][i]
         IN subtract_loop_adding([st EXCEPT ![res] =
                                     IF DictHas(@, e.k)
                                     THEN DictSetItem(@, e.k, DictGet(@, e.k, 0) + e.v)
                                     ELSE DictSetItem(@, e.k, -e.v)],
                                 res, oth, i + 1)

\* the loop of lines 97 to 101
RECURSIVE subtract_loop(_, _, _, _)
subtract_loop(st, res, oth, i) ==
    IF i > Len(st[oth]) THEN st
    ELSE LET e == st[oth][i]
         IN subtract_loop([st EXCEPT ![res] =
                              IF DictHas(@, e.k)
                              THEN DictSetItem(@, e.k, DictGet(@, e.k, 0) - e.v)
                              ELSE DictSetItem(@, e.k, -e.v)],
                          res, oth, i + 1)

SameShape(a, b) == a.num_rows = b.num_rows /\ a.num_cols = b.num_cols

add(ob, st, self, other) ==
    IF ob[self].num_rows # ob[other].num_rows \/ ob[self].num_cols # ob[other].num_cols
    THEN Result(ob, st, 0, 0, ValueError("Matrices dimensions do not match for addition."))
    ELSE LET new == init_dims(ob, st, ob[self].num_rows, ob[self].num_cols)
             cp == dict_copy(new.store, ob[self].elements)
             ob1 == [new.objs EXCEPT ![new.res].elements = cp.ref]
             st1 == Collect(ob1, cp.store)
         IN Result(ob1, add_loop(st1, cp.ref, ob[other].elements, 1), 0, new.res, NoError)

subtract(ob, st, self, other) ==
    IF ob[self].num_rows # ob[other].num_rows \/ ob[self].num_cols # ob[other].num_cols
    THEN Result(ob, st, 0, 0, ValueError("Matrices dimensions do not match for subtraction."))
    ELSE LET new == init_dims(ob, st, ob[self].num_rows, ob[self].num_cols)
             cp == dict_copy(new.store, ob[self].elements)
             ob1 == [new.objs EXCEPT ![new.res].elements = cp.ref]
             st1 == Collect(ob1, cp.store)
         IN Result(ob1, subtract_loop(st1, cp.ref, ob[other].elements, 1), 0, new.res, NoError)

\* the inner loop of multiply with = in place of += at line 119
RECURSIVE multiply_inner_overwriting(_, _, _, _, _, _)
multiply_inner_overwriting(st, res, oth, e, k, num_cols) ==
    IF k >= num_cols THEN st
    ELSE multiply_inner_overwriting(
             IF DictHas(st[oth], <<e.k[2], k>>)
             THEN [st EXCEPT ![res] =
                      DictSetItem(@, <<e.k[1], k>>, e.v * DictGet(st[oth], <<e.k[2], k>>, 0))]
             ELSE st,
             res, oth, e, k + 1, num_cols)

\* for k in range(other.num_cols), lines 116 to 121, for one item of self
RECURSIVE multiply_inner(_, _, _, _, _, _)
multiply_inner(st, res, oth, e, k, num_cols) ==
    IF k >= num_cols THEN st
    ELSE LET row == e.k[1]
             col == e.k[2]
             st1 == IF DictHas(st[oth], <<col, k>>)
                    THEN [st EXCEPT ![res] =
                             IF DictHas(@, <<row, k>>)
                             THEN DictSetItem(@, <<row, k>>,
                                      DictGet(@, <<row, k>>, 0) + e.v * DictGet(st[oth], <<col, k>>, 0))
                             ELSE DictSetItem(@, <<row, k>>, e.v * DictGet(st[oth], <<col, k>>, 0))]
                    ELSE st
         IN multiply_inner(st1, res, oth, e, k + 1, num_cols)

\* for (row, col), value in self.elements.items(), line 115
RECURSIVE multiply_loop(_, _, _, _, _, _)
multiply_loop(st, res, slf, oth, i, num_cols) ==
    IF i > Len(st[slf]) THEN st
    ELSE multiply_loop(multiply_inner(st, res, oth, st[slf][i], 0, num_cols),
                       res, slf, oth, i + 1, num_cols)

\* the test of line 112 comparing the wrong dimension of other
multiply_by_cols(ob, st, self, other) ==
    IF ob[self].num_cols # ob[other].num_cols
    THEN Result(ob, st, 0, 0, ValueError("Matrices dimensions do not match for multiplication."))
    ELSE LET new == init_dims(ob, st, ob[self].num_rows, ob[other].num_cols)
             ref == new.objs[new.res].elements
         IN Result(new.objs,
                   multiply_loop(new.store, ref, ob[self].elements, ob[other].elements,
                                 1, ob[other].num_cols),
                   0, new.res, NoError)

multiply(ob, st, self, other) ==
    IF ob[self].num_cols # ob[other].num_rows
    THEN Result(ob, st, 0, 0, ValueError("Matrices dimensions do not match for multiplication."))
    ELSE LET new == init_dims(ob, st, ob[self].num_rows, ob[other].num_cols)
             ref == new.objs[new.res].elements
         IN Result(new.objs,
                   multiply_loop(new.store, ref, ob[self].elements, ob[other].elements,
                                 1, ob[other].num_cols),
                   0, new.res, NoError)

----------------------------------------------------------------------------
(* The program: matrices are created, written to, combined, formatted to   *)
(* the file and loaded from it.  last is the call just made, hist records  *)
(* for every matrix whether it was created empty and the set_element calls *)
(* made on it since.                                                       *)

Call(op, self, other, r, c, v) ==
    [op |-> op, self |-> self, other |-> other, r |-> r, c |-> c, v |-> v]

NoCall == [op |-> "", self |-> 0, other |-> 0, r |-> 0, c |-> 0, v |-> 0,
           ret |-> 0, res |-> 0, err |-> NoError]

\* the call made, with what it returned or raised and the heap it left
Step(call, out) ==
    /\ objs' = out.objs
    /\ store' = out.store
    /\ last' = call @@ [ret |-> out.ret, res |-> out.res, err |-> out.err]

Made(h, n, empty) ==
    IF n = Len(h) THEN h ELSE Append(h, [empty |-> empty, w |-> {}])

Written(w, r, c, v) == {t \in w : <<t[1], t[2]>> # <<r, c>>} \cup {<<r, c, v>>}

\* SparseMatrix(num_rows=.., num_cols=..), either argument possibly left out
New(num_rows, num_cols) ==
    /\ Step(Call("__init__", 0, 0, 0, 0, 0), init(objs, store, file, None, num_rows, num_cols))
    /\ hist' = Made(hist, Len(objs'), TRUE)
    /\ UNCHANGED <<file, nsets>>

\* SparseMatrix(matrix_file_path=Path)
Construct ==
    /\ Step(Call("construct", 0, 0, 0, 0, 0), init(objs, store, file, Some(Path), None, None))
    /\ hist' = Made(hist, Len(objs'), FALSE)
    /\ UNCHANGED <<file, nsets>>

LoadMatrix(self) ==
    /\ self \in DOMAIN objs
    /\ Step(Call("load_matrix", self, 0, 0, 0, 0), load_matrix(objs, store, file, self))
    /\ hist' = [hist EXCEPT ![self].empty = FALSE]
    /\ UNCHANGED <<file, nsets>>

GetElement(self, r, c) ==
    /\ self \in DOMAIN objs
    /\ Step(Call("get_element", self, 0, r, c, 0), get_element(objs, store, self, r, c))
    /\ UNCHANGED <<file, hist, nsets>>

SetElement(self, r, c, v) ==
    /\ self \in DOMAIN objs
    /\ Step(Call("set_element", self, 0, r, c, v), set_element(objs, store, self, r, c, v))
    /\ hist' = [hist EXCEPT ![self].w = Written(@, r, c, v)]
    /\ nsets' = nsets + 1
    /\ UNCHANGED file

Add(self, other) ==
    /\ self \in DOMAIN objs /\ other \in DOMAIN objs
    /\ Step(Call("add", self, other, 0, 0, 0), add(objs, store, self, other))
    /\ hist' = Made(hist, Len(objs'), FALSE)
    /\ UNCHANGED <<file, nsets>>

Subtract(self, other) ==
    /\ self \in DOMAIN objs /\ other \in DOMAIN objs
    /\ Step(Call("subtract", self, other, 0, 0, 0), subtract(objs, store, self, other))
    /\ hist' = Made(hist, Len(objs'), FALSE)
    /\ UNCHANGED <<file, nsets>>

Multiply(self, other) ==
    /\ self \in DOMAIN objs /\ other \in DOMAIN objs
    /\ Step(Call("multiply", self, other, 0, 0, 0), multiply(objs, store, self, other))
    /\ hist' = Made(hist, Len(objs'), FALSE)
    /\ UNCHANGED <<file, nsets>>

\* f.write(str(result)), lines 158 and 159
WriteStr(self) ==
    /\ self \in DOMAIN objs
    /\ file' = Some(str(objs[self], store[objs[self].elements]))
    /\ last' = [NoCall EXCEPT !.op = "__str__", !.self = self]
    /\ UNCHANGED <<objs, store, hist, nsets>>

----------------------------------------------------------------------------
(* Inputs: matrices as set_element calls on an empty matrix leave them *)

Items(idx, vals) == {[k |-> <<r, c>>, v |-> v] : r \in idx, c \in idx, v \in vals}

\* the dicts of at most n items, in every insertion order
Dicts(items, n) ==
    {d \in UNION {[1..m -> items] : m \in 0..n} :
        \A i \in 1..Len(d), j \in 1..Len(d) : i # j => d[i].k # d[j].k}

AsWritten(d) == {<<d[i].k[1], d[i].k[2], d[i].v>> : i \in 1..Len(d)}

\* the state after A = SparseMatrix(num_rows, num_cols), B likewise, and the
\* set_element calls that fill them
InitPair(dims, dicts) ==
    \E ar \in dims, ac \in dims, br \in dims, bc \in dims, ad \in dicts, bd \in dicts :
        /\ objs = <<[num_rows |-> ar, num_cols |-> ac, elements |-> 1],
                    [num_rows |-> br, num_cols |-> bc, elements |-> 2]>>
        /\ store = <<ad, bd>>
        /\ hist = <<[empty |-> TRUE, w |-> AsWritten(ad)],
                    [empty |-> TRUE, w |-> AsWritten(bd)]>>
        /\ file = None
        /\ last = NoCall
        /\ nsets = 0

\* the state after M = SparseMatrix(num_rows, num_cols) and its set_element calls
InitOne(dims, dicts) ==
    \E nr \in dims, nc \in dims, d \in dicts :
        /\ objs = <<[num_rows |-> nr, num_cols |-> nc, elements |-> 1]>>
        /\ store = <<d>>
        /\ hist = <<[empty |-> TRUE, w |-> AsWritten(d)]>>
        /\ file = None
        /\ last = NoCall
        /\ nsets = 0

InitEmpty ==
    /\ objs = <<>>
    /\ store = <<>>
    /\ hist = <<>>
    /\ file = None
    /\ last = NoCall
    /\ nsets = 0

----------------------------------------------------------------------------
(* Spec: two matrices of at most one entry each are combined, and any      *)
(* matrix is written to before or after.                                   *)

Objs == 1..MaxObjs

Init == InitPair(Dims, Dicts(Items(Idx, {2}), 1))

Next ==
    \/ \E i \in Objs, j \in Objs : Len(objs) < MaxObjs /\ Add(i, j)
    \/ \E i \in Objs, j \in Objs : Len(objs) < MaxObjs /\ Subtract(i, j)
    \/ \E i \in Objs, j \in Objs : Len(objs) < MaxObjs /\ Multiply(i, j)
    \/ \E i \in Objs, r \in Idx, c \in Idx, v \in Vals : nsets < MaxSets /\ SetElement(i, r, c, v)

Spec == Init /\ [][Next]_vars

(* SpecAlg: the arithmetic of two matrices of up to MaxEntries entries *)

InitAlg == InitPair(Dims, Dicts(Items(Idx, Vals), MaxEntries))

NextAlg ==
    \/ \E j \in 1..2 : Len(objs) < MaxObjs /\ Add(1, j)
    \/ \E j \in 1..2 : Len(objs) < MaxObjs /\ Subtract(1, j)
    \/ \E j \in 1..2 : Len(objs) < MaxObjs /\ Multiply(1, j)

SpecAlg == InitAlg /\ [][NextAlg]_vars

(* SpecCell: set_element and get_element on a matrix created empty *)

InitCell == InitOne(Dims, {<<>>})

NextCell ==
    \/ \E r \in WideIdx, c \in WideIdx : GetElement(1, r, c)
    \/ \E r \in WideIdx, c \in WideIdx, v \in CellVals :
           nsets < MaxCellSets /\ SetElement(1, r, c, v)

SpecCell == InitCell /\ [][NextCell]_vars

(* SpecIO: every public operation, from an empty heap *)

OptDims == {None} \cup {Some(n) : n \in Dims}

IOObjs == 1..MaxIOObjs

NextIO ==
    \/ \E nr \in OptDims, nc \in OptDims : Len(objs) < MaxIOObjs /\ New(nr, nc)
    \/ Len(objs) < MaxIOObjs /\ Construct
    \/ \E i \in IOObjs : LoadMatrix(i)
    \/ \E i \in IOObjs : WriteStr(i)
    \/ \E i \in IOObjs : GetElement(i, 1, 1)
    \/ \E i \in IOObjs : nsets < MaxSets /\ SetElement(i, 1, 1, 2)
    \/ \E i \in IOObjs, j \in IOObjs : Len(objs) < MaxIOObjs /\ Add(i, j)
    \/ \E i \in IOObjs, j \in IOObjs : Len(objs) < MaxIOObjs /\ Subtract(i, j)
    \/ \E i \in IOObjs, j \in IOObjs : Len(objs) < MaxIOObjs /\ Multiply(i, j)

SpecIO == InitEmpty /\ [][NextIO]_vars

----------------------------------------------------------------------------
(* SpecRT: a matrix is formatted to the file and a matrix is constructed   *)
(* from the file.                                                          *)

\* dimensions, indices and values with a sign, a zero and two digits
RTInts == {-10, 0, 7}

InitRT == InitOne(RTInts, Dicts(Items(RTInts, RTInts), MaxEntries))

NextRT ==
    \/ file = None /\ WriteStr(1)
    \/ Len(objs) < 2 /\ Construct

SpecRT == InitRT /\ [][NextRT]_vars

----------------------------------------------------------------------------
(* SpecParse: a matrix is constructed from a file of any content *)

\* the text of a sequence of lines
RECURSIVE Text(_)
Text(lines) == IF lines = <<>> THEN <<>> ELSE Head(lines) \o <<"\n">> \o Text(Tail(lines))

Rows == <<"r", "o", "w", "s">>
Cols == <<"c", "o", "l", "s">>

HeaderPool ==
    {key \o sep \o val :
        key \in {Rows, Cols, <<"x">>, <<>>},
        sep \in {<<"=">>, <<>>},
        val \in {<<"2">>, <<"-", "1">>, <<"x">>, <<>>, <<"1", "=", "2">>}}

GoodHeader == <<Rows \o <<"=", "2">>, Cols \o <<"=", "2">>>>

GoodEntries == {<<"(", "0", ",", "0", ",", "1", ")">>, <<>>}

EntryBases == {<<"(", "0", ",", "1", ",", "2", ")">>,
               <<"(", "1", ",", " ", "0", ",", " ", "-", "2", ")">>}

EditChars == {"(", ")", ",", " ", "-", "+", "_", "1", "x", "."}

\* a line, and every line one deletion, replacement or insertion away from it
Edits(line) ==
    {line}
      \cup {SubSeq(line, 1, i - 1) \o SubSeq(line, i + 1, Len(line)) : i \in 1..Len(line)}
      \cup {[line EXCEPT ![i] = ch] : i \in 1..Len(line), ch \in EditChars}
      \cup {SubSeq(line, 1, i) \o <<ch>> \o SubSeq(line, i + 1, Len(line)) :
               i \in 0..Len(line), ch \in EditChars}

EntryPool ==
    UNION {Edits(b) : b \in EntryBases}
      \cup {<<"(", "1", ",", "2", ")">>,
            <<"1", ",", "2", ",", "3">>,
            <<"(", "1", ",", "2", ",", "3", ",", "4", ")">>,
            <<"(", "1", ",", "x", ",", "3", ")">>,
            <<"(", "1", "_", "0", ",", "2", ",", "3", ")">>}

Seqs(S, n) == UNION {[1..m -> S] : m \in 0..n}

ParseFiles ==
    {Text(h) : h \in Seqs(HeaderPool, 2)}
      \cup {Text(<<h1, h2>> \o es) : h1 \in HeaderPool, h2 \in HeaderPool, es \in Seqs(GoodEntries, 1)}
      \cup {Text(GoodHeader \o pre \o <<x>> \o post) :
               pre \in Seqs(GoodEntries, MaxLines), x \in EntryPool, post \in Seqs(GoodEntries, 1)}

InitParse ==
    /\ objs = <<>>
    /\ store = <<>>
    /\ hist = <<>>
    /\ file \in {Some(f) : f \in ParseFiles}
    /\ last = NoCall
    /\ nsets = 0

NextParse == Len(objs) < 1 /\ Construct

SpecParse == InitParse /\ [][NextParse]_vars

----------------------------------------------------------------------------
(* Properties *)

Elements(i) == store[objs[i].elements]

Coords(S) == {<<r, c>> : r \in S, c \in S}

\* every coordinate probed: the wide range and whatever the matrices store
Probes == Coords(WideIdx) \cup UNION {DictKeys(Elements(i)) : i \in DOMAIN objs}

Read(i, key) == get_element(objs, store, i, key[1], key[2]).ret

Arithmetic == {"add", "subtract", "multiply"}

RECURSIVE SumOver(_, _, _, _, _)
\* the sum over the columns c in cols of A[(r, c)] * get_element(B, c, k)
SumOver(cols, a, b, r, k) ==
    IF cols = {} THEN 0
    ELSE LET c == CHOOSE x \in cols : TRUE
         IN Mapping(Elements(a))[<<r, c>>] * Read(b, <<c, k>>)
                + SumOver(cols \ {c}, a, b, r, k)

\* the columns c at which a stores (r, c)
StoredCols(a, r) == {key[2] : key \in {x \in DictKeys(Elements(a)) : x[1] = r}}

\* the columns c with (r, c) stored in a and (c, k) stored in b
Pairs(a, b, r, k) == {c \in StoredCols(a, r) : <<c, k>> \in DictKeys(Elements(b))}

RECURSIVE Reverse(_)
Reverse(d) == IF d = <<>> THEN <<>> ELSE Append(Reverse(Tail(d)), Head(d))

\* the mapping of the matrix out returns, a call's outcome
Returned(out) == Mapping(out.store[out.objs[out.res].elements])

(* C1: when A.num_cols = B.num_rows, multiply returns a matrix R in which,  *)
(* for every row r and every column k of B, get_element(R, r, k) is the sum *)
(* over the columns c stored in row r of A of A[(r, c)] * get_element(B, c, *)
(* k); a coordinate no pair of stored entries contributes to is not stored  *)
(* in R and reads 0; visiting the entries of A in the opposite order gives  *)
(* the same mapping.                                                        *)
C1_MultiplyIsSumOfProducts ==
    (last.op = "multiply" /\ objs[last.self].num_cols = objs[last.other].num_rows) =>
        /\ last.err = NoError
        /\ last.res \in DOMAIN objs
        /\ \A key \in Probes :
            /\ key[2] \in 0..(objs[last.other].num_cols - 1) =>
                   Read(last.res, key)
                       = SumOver(StoredCols(last.self, key[1]), last.self, last.other,
                                 key[1], key[2])
            /\ Pairs(last.self, last.other, key[1], key[2]) = {} =>
                   key \notin DictKeys(Elements(last.res)) /\ Read(last.res, key) = 0
        /\ Returned(multiply(objs,
                             [store EXCEPT ![objs[last.self].elements] = Reverse(@)],
                             last.self, last.other))
               = Mapping(Elements(last.res))

\* a product of two matrices in which one entry is the sum of two products
C1_Witness ==
    /\ last.op = "multiply"
    /\ last.res \in DOMAIN objs
    /\ last.other # last.self
    /\ \E key \in DictKeys(Elements(last.res)) :
           Cardinality(Pairs(last.self, last.other, key[1], key[2])) = 2

(* C2: add, subtract and multiply leave the dimensions and the element      *)
(* mapping of every matrix that exists as they were, and the matrix they    *)
(* return is a new one whose dict is the dict of no other matrix; a         *)
(* set_element on one matrix changes what get_element returns on no other.  *)
C2_OperandsUntouched ==
    [][/\ last'.op \in Arithmetic =>
            /\ \A i \in DOMAIN objs :
                   objs'[i] = objs[i] /\ store'[objs'[i].elements] = Elements(i)
            /\ last'.res # 0 =>
                   /\ last'.res \notin DOMAIN objs
                   /\ \A i \in DOMAIN objs : objs'[last'.res].elements # objs[i].elements
       /\ last'.op = "set_element" =>
            \A i \in DOMAIN objs \ {last'.self} :
                /\ objs'[i] = objs[i]
                /\ \A key \in Probes :
                       get_element(objs', store', i, key[1], key[2]).ret = Read(i, key)]_vars

\* the sum of a matrix with itself was written to where the matrix has an entry
C2_Witness ==
    /\ last.op = "set_element"
    /\ Len(objs) = MaxObjs
    /\ last.self = MaxObjs
    /\ ~hist[last.self].empty
    /\ \E i \in DOMAIN objs \ {last.self} :
           /\ DictHas(Elements(i), <<last.r, last.c>>)
           /\ Read(i, <<last.r, last.c>>) # last.v

(* C3: multiply raises its dimension error exactly when A.num_cols differs  *)
(* from B.num_rows, and otherwise returns a matrix of A.num_rows rows and   *)
(* B.num_cols columns; add and subtract raise theirs exactly when the row   *)
(* counts or the column counts differ, and otherwise return a matrix of the *)
(* shape of A; a call that raises returns no matrix and leaves the heap.    *)
C3_DimensionMismatch ==
    [][last'.op \in Arithmetic =>
           LET a == objs[last'.self]
               b == objs[last'.other]
               mismatch == IF last'.op = "multiply" THEN a.num_cols # b.num_rows
                           ELSE a.num_rows # b.num_rows \/ a.num_cols # b.num_cols
               message == IF last'.op = "multiply"
                          THEN "Matrices dimensions do not match for multiplication."
                          ELSE IF last'.op = "add"
                          THEN "Matrices dimensions do not match for addition."
                          ELSE "Matrices dimensions do not match for subtraction."
           IN /\ last'.err # NoError <=> mismatch
              /\ last'.err # NoError =>
                     /\ last'.err = ValueError(message)
                     /\ last'.res = 0
                     /\ objs' = objs
                     /\ store' = store
              /\ last'.err = NoError =>
                     /\ last'.res = Len(objs) + 1
                     /\ Len(objs') = Len(objs) + 1
                     /\ objs'[last'.res].num_rows = a.num_rows
                     /\ objs'[last'.res].num_cols = b.num_cols]_vars

\* a multiply refused although the two matrices have the same shape
C3_Witness ==
    /\ last.op = "multiply"
    /\ last.err # NoError
    /\ SameShape(objs[last.self], objs[last.other])

(* C4: the text __str__ gives for a matrix of integer dimensions, indices   *)
(* and values (negative ones, zero values stored explicitly) parses back to *)
(* a matrix of the same num_rows, the same num_cols and the same mapping.   *)
C4_RoundTrip ==
    (last.op = "construct" /\ file # None) =>
        /\ last.err = NoError
        /\ last.res = 2
        /\ objs[2].num_rows = objs[1].num_rows
        /\ objs[2].num_cols = objs[1].num_cols
        /\ Mapping(Elements(2)) = Mapping(Elements(1))

\* a matrix of negative row count with a negative index, a stored zero and
\* its entries inserted out of order went through the file
C4_Witness ==
    /\ last.op = "construct"
    /\ last.res = 2
    /\ objs[1].num_rows < 0
    /\ Len(Elements(1)) = MaxEntries
    /\ \E i \in 1..Len(Elements(1)) : Elements(1)[i].v = 0 /\ Elements(1)[i].k[1] < 0
    /\ Elements(2) # Elements(1)

\* what the set_element calls recorded in w leave at (r, c)
LastWritten(w, r, c) ==
    IF \E t \in w : t[1] = r /\ t[2] = c
    THEN (CHOOSE t \in w : t[1] = r /\ t[2] = c)[3]
    ELSE 0

(* C5: on a matrix created empty, get_element(row, col) returns the value   *)
(* of the latest set_element at (row, col), or 0 if there was none, for     *)
(* indices inside, beyond and below the declared dimensions; neither call   *)
(* raises, and get_element changes neither the mapping nor the dimensions.  *)
C5_GetReturnsLastSet ==
    [][/\ \A i \in DOMAIN objs' :
              hist'[i].empty =>
                  \A r \in WideIdx, c \in WideIdx :
                      get_element(objs', store', i, r, c).ret = LastWritten(hist'[i].w, r, c)
       /\ last'.op = "get_element" =>
              /\ last'.err = NoError
              /\ last'.ret = LastWritten(hist[last'.self].w, last'.r, last'.c)
              /\ objs' = objs
              /\ store' = store
       /\ last'.op = "set_element" =>
              /\ last'.err = NoError
              /\ last'.ret = 0
              /\ objs' = objs]_vars

\* a value written a second time at a row beyond num_rows and a negative
\* column is read back
C5_Witness ==
    /\ last.op = "get_element"
    /\ last.r >= objs[1].num_rows
    /\ last.c < 0
    /\ last.ret = 2
    /\ nsets = MaxCellSets
    /\ Len(Elements(1)) = 1

(* C6: for A and B of equal dimensions, get_element of add(A, B) equals     *)
(* get_element of add(B, A) at every coordinate.                            *)
C6_AddCommutes ==
    (last.op = "add" /\ SameShape(objs[last.self], objs[last.other])) =>
        LET ba == add(objs, store, last.other, last.self)
        IN /\ last.err = NoError
           /\ ba.err = NoError
           /\ \A key \in Probes :
                  Read(last.res, key) = get_element(ba.objs, ba.store, ba.res, key[1], key[2]).ret

\* A and B hold different values at one coordinate, and B + A stores its
\* entries in another order than A + B
C6_Witness ==
    /\ last.op = "add"
    /\ last.res \in DOMAIN objs
    /\ \E key \in DictKeys(Elements(last.self)) \cap DictKeys(Elements(last.other)) :
           Read(last.self, key) # Read(last.other, key)
    /\ LET ba == add(objs, store, last.other, last.self)
       IN ba.store[ba.objs[ba.res].elements] # Elements(last.res)

(* C7: subtract(A, A) raises nothing and returns a matrix in which          *)
(* get_element is 0 at every coordinate A stores and at every other.        *)
C7_SubtractSelfIsZero ==
    (last.op = "subtract" /\ last.other = last.self) =>
        /\ last.err = NoError
        /\ last.res \in DOMAIN objs
        /\ DictKeys(Elements(last.res)) = DictKeys(Elements(last.self))
        /\ \A key \in Probes : Read(last.res, key) = 0

\* a matrix of MaxEntries entries, none of them 0, was subtracted from itself
C7_Witness ==
    /\ last.op = "subtract"
    /\ last.other = last.self
    /\ last.res \in DOMAIN objs
    /\ Len(Elements(last.self)) = MaxEntries
    /\ \A i \in 1..Len(Elements(last.self)) : Elements(last.self)[i].v # 0

----------------------------------------------------------------------------
(* The file format, as a grammar *)

\* an integer: white space, an optional sign, digits with single underscores
\* between them, white space
IntNext(state, ch) ==
    CASE state = "start" -> IF IsSpace(ch) THEN "start"
                            ELSE IF ch \in {"+", "-"} THEN "sign"
                            ELSE IF IsDigit(ch) THEN "digits" ELSE "no"
      [] state = "sign" -> IF IsDigit(ch) THEN "digits" ELSE "no"
      [] state = "digits" -> IF IsDigit(ch) THEN "digits"
                             ELSE IF ch = "_" THEN "underscore"
                             ELSE IF IsSpace(ch) THEN "end" ELSE "no"
      [] state = "underscore" -> IF IsDigit(ch) THEN "digits" ELSE "no"
      [] state = "end" -> IF IsSpace(ch) THEN "end" ELSE "no"
      [] OTHER -> "no"

RECURSIVE IntRun(_, _)
IntRun(state, s) == IF s = <<>> THEN state ELSE IntRun(IntNext(state, Head(s)), Tail(s))

IsInteger(s) == IntRun("start", s) \in {"digits", "end"}

\* ( integer , integer , integer )
IsTriple(line) ==
    /\ Len(line) >= 2
    /\ line[1] = "(" /\ line[Len(line)] = ")"
    /\ \E i \in 2..(Len(line) - 1), j \in 2..(Len(line) - 1) :
           /\ i < j
           /\ {n \in 2..(Len(line) - 1) : line[n] = ","} = {i, j}
           /\ IsInteger(SubSeq(line, 2, i - 1))
           /\ IsInteger(SubSeq(line, i + 1, j - 1))
           /\ IsInteger(SubSeq(line, j + 1, Len(line) - 1))

\* key=integer
IsHeader(line, key) ==
    /\ Len(line) > Len(key) + 1
    /\ SubSeq(line, 1, Len(key)) = key
    /\ line[Len(key) + 1] = "="
    /\ IsInteger(SubSeq(line, Len(key) + 2, Len(line)))

FileLines == IF file = None THEN <<>> ELSE readlines(file[1])

HeaderWellFormed ==
    /\ Len(FileLines) >= 2
    /\ IsHeader(strip(FileLines[1]), Rows)
    /\ IsHeader(strip(FileLines[2]), Cols)

\* the lines after the two header lines that are neither blank nor a triple
BadEntryLines ==
    {n \in 3..Len(FileLines) : strip(FileLines[n]) # <<>> /\ ~IsTriple(strip(FileLines[n]))}

(* C8: when a non-blank line after the two header lines is not a            *)
(* parenthesized triple of comma-separated integers, construction from the  *)
(* file raises, wherever the line stands: no matrix is returned, and under  *)
(* a well-formed header what is raised is the wrong-format error.           *)
C8_MalformedEntryRejected ==
    (last.op = "construct" /\ BadEntryLines # {}) =>
        /\ last.err # NoError
        /\ last.err[1] = "ValueError"
        /\ last.res = 0
        /\ objs = <<>>
        /\ DOMAIN store = {}
        /\ HeaderWellFormed => last.err = ReadError(WrongFormat)

\* the last of three entries is parenthesized and is not a triple
C8_Witness ==
    /\ last.op = "construct"
    /\ BadEntryLines = {5}
    /\ strip(FileLines[3]) # <<>>
    /\ strip(FileLines[4]) # <<>>
    /\ strip(FileLines[5])[1] = "("
    /\ strip(FileLines[5])[Len(strip(FileLines[5]))] = ")"
    /\ last.err = ReadError(WrongFormat)

(* C9: construction from a file succeeds only if line 1 is rows=<int> and   *)
(* line 2 is cols=<int>: a missing header line, another key or a value that *)
(* is no integer makes it fail.                                             *)
C9_HeaderValidated ==
    (last.op = "construct" /\ last.err = NoError) => HeaderWellFormed

(* C10 as stated: whatever public operation is called, load_matrix among    *)
(* them, num_rows and num_cols of every constructed matrix stay as they are *)
C10_DimensionsNeverChange ==
    [][\A i \in DOMAIN objs :
           objs'[i].num_rows = objs[i].num_rows /\ objs'[i].num_cols = objs[i].num_cols]_vars

(* C10, amended: num_rows and num_cols of every constructed matrix stay as  *)
(* they are under get_element, set_element, add, subtract, multiply, string *)
(* formatting and the construction of other matrices, whether the matrix is *)
(* the receiver, the argument or the result; load_matrix is the exception.  *)
C10_DimensionsChangeOnlyOnLoad ==
    [][last'.op # "load_matrix" =>
           \A i \in DOMAIN objs :
               objs'[i].num_rows = objs[i].num_rows /\ objs'[i].num_cols = objs[i].num_cols]_vars

\* a matrix written to beyond its dimensions, then combined with itself
C10_Witness ==
    /\ last.op \in Arithmetic
    /\ last.res \in DOMAIN objs
    /\ last.self = last.other
    /\ \E key \in DictKeys(Elements(last.self)) : key[1] >= objs[last.self].num_rows

====
